---- MODULE Spec2Model ----
(***************************************************************************)
(* Agon MOS firmware upgrade utility (src/src/main.c): the pre-flight      *)
(* checks, the backup capture and the erase / program / verify / recover   *)
(* loop of main(), over a scaled-down flash device.                        *)
(*                                                                         *)
(* Bytes are one bit wide (0..1); an erased byte reads 1 and programming   *)
(* can only clear bits (new = old AND data).  Addresses are offsets from   *)
(* FLASHSTART; BUFFER1 and BUFFER2 are symbolic bases of the two staging   *)
(* buffers.                                                                *)
(***************************************************************************)
EXTENDS Integers, Sequences, FiniteSets, TLC

\* ---- bounds of the model (scaled-down device and inputs) ----
PAGESIZE == 2
FLASHPAGES == 2
BLOCKSIZE == 3
Oversize == 2
MaxFaults == 2

FLASHSTART == 0
FLASHSIZE == PAGESIZE * FLASHPAGES
MaxFileLen == FLASHSIZE + Oversize

Byte == 0..1
Erased == 1
Patterns == {"ones", "zeros", "alt"}

Pattern(p, n) ==
  [i \in 1..n |-> CASE p = "ones" -> 1 [] p = "zeros" -> 0 [] OTHER -> i % 2]

\* the files that may be found on storage, and the device's firmware before the run
Files == {Pattern(p, n) : p \in Patterns, n \in 0..MaxFileLen}
Firmwares == {Pattern(p, FLASHSIZE) : p \in Patterns}

Min(a, b) == IF a < b THEN a ELSE b

\* ---- checksum engine (crc32.h): a pure function of the byte sequence ----
\* (a collision-free digest of the bytes and their number; at the image
\* lengths of this model its values stay far below 2^32)
RECURSIVE crc32(_)
crc32(s) ==
  IF s = <<>> THEN 1
  ELSE crc32(SubSeq(s, 1, Len(s) - 1)) * 3 + s[Len(s)] + 1

\* checksums an operator can type: those of every possible image
CrcArgs == {crc32(f) : f \in {g \in Files : Len(g) <= FLASHSIZE}}

\* ---- page arithmetic of the write loop ----
\* mutant: an empty image still gets one page
PageMaxAtLeastOne(sz, ps) ==
  IF sz % ps # 0 \/ sz = 0 THEN (sz \div ps) + 1 ELSE sz \div ps

\* mutant: one page too many when the length is a multiple of the page size
PageMaxPlus(sz, ps) == (sz \div ps) + 1

PageMax(sz, ps) == IF sz % ps # 0 THEN (sz \div ps) + 1 ELSE sz \div ps

\* mutant: the last page is always copied whole
LastPageBytesFull(sz, ps) == ps

LastPageBytes(sz, ps) == IF sz % ps # 0 THEN sz % ps ELSE ps

CopyLen(cnt, pm, lpb, ps) == IF cnt = pm - 1 THEN lpb ELSE ps

CeilDiv(a, b) == (a + b - 1) \div b

\* ---- memory ----
BUFFER1 == "BUFFER1"
BUFFER2 == "BUFFER2"
NoAddr == [base |-> "none", off |-> 0]

\* the bytes [0, n) of the flash region, as crc32((char*)FLASHSTART, n) reads them
FlashRange(fl, n) == [i \in 1..n |-> fl[i - 1]]

\* byte k (0-based) of a staging buffer; bytes never stored read as 0
BufByte(buf, k) == IF k + 1 <= Len(buf) THEN buf[k + 1] ELSE 0

\* flash after a bulk copy of data to address to: only addresses inside the
\* region land, bits can only be cleared, a fault flips the first byte copied
ProgramFlash(fl, prot, to, data, fault) ==
  [a \in 0..(FLASHSIZE - 1) |->
     IF prot = 0 /\ a >= to /\ a < to + Len(data)
     THEN LET good == fl[a] * data[a - to + 1]
          IN IF fault /\ a = to THEN 1 - good ELSE good
     ELSE fl[a]]

\* flash after the erase of page pg completes (a faulty erase leaves the page as it was)
EraseFlash(fl, prot, pg, fault) ==
  [a \in 0..(FLASHSIZE - 1) |->
     IF prot = 0 /\ ~fault /\ a \div PAGESIZE = pg THEN Erased ELSE fl[a]]

VARIABLES
  pc,            \* position in main()
  argc, file, fileData, filePos,
  buffer1, buffer2, flash,
  ptr, size, got,
  crcexpected, crcresult, crcbackup,
  response, state, counter, pagemax, lastpagebytes,
  addressto, addressfrom, value,
  ie,            \* interrupts enabled
  keyUnlocked, flashProt, flashFdiv, flashPage, pgctl,
  out,           \* the last message printed
  faults, faulted,
  pass,          \* number of erase-program-verify passes started
  trace,         \* device-level operations issued so far
  verifyLog      \* verifications performed so far

vars == <<pc, out, argc, file, fileData, filePos, buffer1, buffer2, flash, ptr, size,
          got, crcexpected, crcresult, crcbackup, response, state, counter,
          pagemax, lastpagebytes, addressto, addressfrom, value, ie,
          keyUnlocked, flashProt, flashFdiv, flashPage, pgctl, faults, faulted,
          pass, trace, verifyLog>>

Ev(op) == [op |-> op, to |-> 0, from |-> NoAddr, len |-> 0]

Init ==
  /\ pc = "args"
  /\ out = "banner"
  /\ argc = 0 /\ file = 0 /\ fileData = <<>> /\ filePos = 0
  /\ buffer1 = <<>> /\ buffer2 = <<>>
  /\ flash \in {[a \in 0..(FLASHSIZE - 1) |-> f[a + 1]] : f \in Firmwares}
  /\ ptr = 0 /\ size = 0 /\ got = 0
  /\ crcexpected = 0 /\ crcresult = 0 /\ crcbackup = 0
  /\ response = "0" /\ state = "firmware"
  /\ counter = 0 /\ pagemax = 0 /\ lastpagebytes = 0
  /\ addressto = 0 /\ addressfrom = NoAddr /\ value = 0
  /\ ie = TRUE
  /\ keyUnlocked = FALSE /\ flashProt = 255 /\ flashFdiv = 0 /\ flashPage = 0
  /\ pgctl = 0
  /\ faults = 0 /\ faulted = FALSE
  /\ pass = 0 /\ trace = <<>> /\ verifyLog = <<>>

Log(e) == trace' = Append(trace, e)

\* the source buffer an address points into
BufOf(addr) == IF addr.base = BUFFER1 THEN buffer1 ELSE buffer2

\* ---- pre-flight: main() lines 52-107 ----
CheckArgs ==
  /\ pc = "args"
  /\ \E n \in {2, 3} :
       /\ argc' = n
       /\ pc' = IF n # 3 THEN "returned" ELSE "open"
       /\ out' = IF n # 3 THEN "usage" ELSE out
  /\ UNCHANGED <<file, fileData, filePos, buffer1, buffer2, flash, ptr, size,
                 got, crcexpected, crcresult, crcbackup, response, state,
                 counter, pagemax, lastpagebytes, addressto, addressfrom,
                 value, ie, keyUnlocked, flashProt, flashFdiv, flashPage,
                 pgctl, faults, faulted, pass, trace, verifyLog>>

OpenFile ==
  /\ pc = "open"
  /\ \/ /\ file' = 0 /\ fileData' = <<>> /\ pc' = "returned"
        /\ out' = "error_opening"
     \/ \E data \in Files :
          /\ file' = 1 /\ fileData' = data /\ pc' = "parse"
          /\ UNCHANGED out
  /\ UNCHANGED <<argc, filePos, buffer1, buffer2, flash, ptr, size,
                 got, crcexpected, crcresult, crcbackup, response, state,
                 counter, pagemax, lastpagebytes, addressto, addressfrom,
                 value, ie, keyUnlocked, flashProt, flashFdiv, flashPage,
                 pgctl, faults, faulted, pass, trace, verifyLog>>

ParseCrc ==
  /\ pc = "parse"
  /\ \/ /\ crcexpected' = 0 /\ pc' = "returned"      \* errno set
        /\ out' = "incorrect_format"
     \/ \E c \in CrcArgs :
          /\ crcexpected' = c /\ pc' = "load"
          /\ out' = "loading"
  /\ UNCHANGED <<argc, file, fileData, filePos, buffer1, buffer2, flash, ptr,
                 size, got, crcresult, crcbackup, response, state,
                 counter, pagemax, lastpagebytes, addressto, addressfrom,
                 value, ie, keyUnlocked, flashProt, flashFdiv, flashPage,
                 pgctl, faults, faulted, pass, trace, verifyLog>>

\* one iteration of while((got = mos_fread(file, ptr, BLOCKSIZE)) > 0)
ReadBlock ==
  /\ pc = "load"
  /\ LET n == Min(BLOCKSIZE, Len(fileData) - filePos) IN
       /\ got' = n
       /\ IF n > 0
          THEN /\ buffer1' = SubSeq(buffer1, 1, ptr)
                               \o SubSeq(fileData, filePos + 1, filePos + n)
               /\ filePos' = filePos + n
               /\ ptr' = ptr + n
               /\ size' = size + n
               /\ pc' = "load"
          ELSE /\ UNCHANGED <<buffer1, filePos, ptr, size>>
               /\ pc' = "sizecheck"
  /\ UNCHANGED <<out, argc, file, fileData, buffer2, flash,
                 crcexpected, crcresult, crcbackup, response, state,
                 counter, pagemax, lastpagebytes, addressto, addressfrom,
                 value, ie, keyUnlocked, flashProt, flashFdiv, flashPage,
                 pgctl, faults, faulted, pass, trace, verifyLog>>

\* mutant: size >= FLASHSIZE
TooLargeOrEqual(sz) == sz >= FLASHSIZE

TooLarge(sz) == sz > FLASHSIZE

SizeCheck ==
  /\ pc = "sizecheck"
  /\ pc' = IF TooLarge(size) THEN "returned" ELSE "gate"
  /\ out' = IF TooLarge(size) THEN "too_large" ELSE out
  /\ UNCHANGED <<argc, file, fileData, filePos, buffer1, buffer2, flash, ptr,
                 size, got, crcexpected, crcresult, crcbackup, response, state,
                 counter, pagemax, lastpagebytes, addressto, addressfrom,
                 value, ie, keyUnlocked, flashProt, flashFdiv, flashPage,
                 pgctl, faults, faulted, pass, trace, verifyLog>>

Gate ==
  /\ pc = "gate"
  /\ crcresult' = crc32(SubSeq(buffer1, 1, size))
  /\ pc' = IF crcexpected # crcresult' THEN "returned" ELSE "prompt"
  /\ out' = IF crcexpected # crcresult' THEN "mismatch" ELSE "erase_and_program"
  /\ response' = "0"
  /\ UNCHANGED <<argc, file, fileData, filePos, buffer1, buffer2, flash, ptr,
                 size, got, crcexpected, crcbackup, state,
                 counter, pagemax, lastpagebytes, addressto, addressfrom,
                 value, ie, keyUnlocked, flashProt, flashFdiv, flashPage,
                 pgctl, faults, faulted, pass, trace, verifyLog>>

Keys == {"y", "n", "Y", "N", "x"}

\* mutant: the answer is compared without regard to case
GetResponseAnyCase ==
  /\ pc = "prompt"
  /\ \E ch \in Keys :
       /\ response' = ch
       /\ pc' = IF ch \in {"y", "Y"} THEN "backup_copy"
                ELSE IF ch \in {"n", "N"} THEN "returned" ELSE "prompt"
       /\ out' = IF ch \in {"y", "Y"} THEN "backing_up"
                 ELSE IF ch \in {"n", "N"} THEN "user_abort" ELSE out
  /\ UNCHANGED <<argc, file, fileData, filePos, buffer1, buffer2, flash, ptr,
                 size, got, crcexpected, crcresult, crcbackup, state,
                 counter, pagemax, lastpagebytes, addressto, addressfrom,
                 value, ie, keyUnlocked, flashProt, flashFdiv, flashPage,
                 pgctl, faults, faulted, pass, trace, verifyLog>>

\* while((response != 'y') && (response != 'n')) response = getch();
GetResponse ==
  /\ pc = "prompt"
  /\ \E ch \in Keys :
       /\ response' = ch
       /\ pc' = IF ch = "y" THEN "backup_copy"
                ELSE IF ch = "n" THEN "returned" ELSE "prompt"
       /\ out' = IF ch = "y" THEN "backing_up"
                 ELSE IF ch = "n" THEN "user_abort" ELSE out
  /\ UNCHANGED <<argc, file, fileData, filePos, buffer1, buffer2, flash, ptr,
                 size, got, crcexpected, crcresult, crcbackup, state,
                 counter, pagemax, lastpagebytes, addressto, addressfrom,
                 value, ie, keyUnlocked, flashProt, flashFdiv, flashPage,
                 pgctl, faults, faulted, pass, trace, verifyLog>>

\* mutant: only the Candidate's length is backed up
BackupCopyShort ==
  /\ pc = "backup_copy"
  /\ buffer2' = FlashRange(flash, size)
  /\ Log(Ev("backup_copy"))
  /\ pc' = "backup_crc"
  /\ UNCHANGED <<out, argc, file, fileData, filePos, buffer1, flash, ptr,
                 size, got, crcexpected, crcresult, crcbackup, response, state,
                 counter, pagemax, lastpagebytes, addressto, addressfrom,
                 value, ie, keyUnlocked, flashProt, flashFdiv, flashPage,
                 pgctl, faults, faulted, pass, verifyLog>>

\* ---- backup capture: lines 109-119 ----
BackupCopy ==
  /\ pc = "backup_copy"
  /\ buffer2' = FlashRange(flash, FLASHSIZE)
  /\ Log(Ev("backup_copy"))
  /\ pc' = "backup_crc"
  /\ UNCHANGED <<out, argc, file, fileData, filePos, buffer1, flash, ptr,
                 size, got, crcexpected, crcresult, crcbackup, response, state,
                 counter, pagemax, lastpagebytes, addressto, addressfrom,
                 value, ie, keyUnlocked, flashProt, flashFdiv, flashPage,
                 pgctl, faults, faulted, pass, verifyLog>>

BackupCrc ==
  /\ pc = "backup_crc"
  /\ crcbackup' = crc32(FlashRange(flash, FLASHSIZE))
  /\ Log(Ev("backup_crc"))
  /\ pc' = "di"
  /\ UNCHANGED <<out, argc, file, fileData, filePos, buffer1, buffer2, flash, ptr,
                 size, got, crcexpected, crcresult, response, state,
                 counter, pagemax, lastpagebytes, addressto, addressfrom,
                 value, ie, keyUnlocked, flashProt, flashFdiv, flashPage,
                 pgctl, faults, faulted, pass, verifyLog>>

\* mutant: the di instruction has no effect
DiNotDisabling ==
  /\ pc = "di"
  /\ ie' = ie
  /\ addressto' = FLASHSTART
  /\ addressfrom' = [base |-> BUFFER1, off |-> 0]
  /\ state' = "firmware"
  /\ Log(Ev("di"))
  /\ pc' = "switch"
  /\ UNCHANGED <<out, argc, file, fileData, filePos, buffer1, buffer2, flash, ptr,
                 size, got, crcexpected, crcresult, crcbackup, response,
                 counter, pagemax, lastpagebytes,
                 value, keyUnlocked, flashProt, flashFdiv, flashPage,
                 pgctl, faults, faulted, pass, verifyLog>>

\* di(); addressto = FLASHSTART; addressfrom = BUFFER1; state = firmware;
Di ==
  /\ pc = "di"
  /\ ie' = FALSE
  /\ addressto' = FLASHSTART
  /\ addressfrom' = [base |-> BUFFER1, off |-> 0]
  /\ state' = "firmware"
  /\ Log(Ev("di"))
  /\ pc' = "switch"
  /\ UNCHANGED <<out, argc, file, fileData, filePos, buffer1, buffer2, flash, ptr,
                 size, got, crcexpected, crcresult, crcbackup, response,
                 counter, pagemax, lastpagebytes,
                 value, keyUnlocked, flashProt, flashFdiv, flashPage,
                 pgctl, faults, faulted, pass, verifyLog>>

\* ---- the state machine: lines 120-220 ----
\* mutant: the recover case keeps the Candidate's size
SwitchKeepsSize ==
  /\ pc = "switch"
  /\ CASE state = "firmware" ->
            /\ addressfrom' = [base |-> BUFFER1, off |-> 0]
            /\ pass' = pass + 1 /\ faulted' = FALSE
            /\ pc' = "unlock1"
            /\ UNCHANGED <<size, trace>>
       [] state = "recover" ->
            /\ addressfrom' = [base |-> BUFFER2, off |-> 0]
            /\ size' = size
            /\ pass' = pass + 1 /\ faulted' = FALSE
            /\ pc' = "unlock1"
            /\ UNCHANGED trace
       [] OTHER ->
            /\ Log(Ev("reset"))
            /\ pc' = "reset"
            /\ UNCHANGED <<addressfrom, size, pass, faulted>>
  /\ UNCHANGED <<out, argc, file, fileData, filePos, buffer1, buffer2, flash, ptr,
                 got, crcexpected, crcresult, crcbackup, response, state,
                 counter, pagemax, lastpagebytes, addressto,
                 value, ie, keyUnlocked, flashProt, flashFdiv, flashPage,
                 pgctl, faults, verifyLog>>

\* switch(state) at the head of the loop
Switch ==
  /\ pc = "switch"
  /\ CASE state = "firmware" ->
            /\ addressfrom' = [base |-> BUFFER1, off |-> 0]
            /\ pass' = pass + 1 /\ faulted' = FALSE
            /\ pc' = "unlock1"
            /\ UNCHANGED <<size, trace>>
       [] state = "recover" ->
            /\ addressfrom' = [base |-> BUFFER2, off |-> 0]
            /\ size' = FLASHSIZE
            /\ pass' = pass + 1 /\ faulted' = FALSE
            /\ pc' = "unlock1"
            /\ UNCHANGED trace
       [] OTHER ->
            /\ Log(Ev("reset"))
            /\ pc' = "reset"
            /\ UNCHANGED <<addressfrom, size, pass, faulted>>
  /\ UNCHANGED <<out, argc, file, fileData, filePos, buffer1, buffer2, flash, ptr,
                 got, crcexpected, crcresult, crcbackup, response, state,
                 counter, pagemax, lastpagebytes, addressto,
                 value, ie, keyUnlocked, flashProt, flashFdiv, flashPage,
                 pgctl, faults, verifyLog>>

\* enableFlashKeyRegister()
Unlock(at, nxt) ==
  /\ pc = at
  /\ keyUnlocked' = TRUE
  /\ Log(Ev("unlock"))
  /\ pc' = nxt
  /\ UNCHANGED <<out, argc, file, fileData, filePos, buffer1, buffer2, flash, ptr,
                 size, got, crcexpected, crcresult, crcbackup, response, state,
                 counter, pagemax, lastpagebytes, addressto, addressfrom,
                 value, ie, flashProt, flashFdiv, flashPage,
                 pgctl, faults, faulted, pass, verifyLog>>

Unlock1 == Unlock("unlock1", "prot")

\* FLASH_PROT = 0: takes effect only while the key register is unlocked,
\* and uses the unlock up
WriteProt ==
  /\ pc = "prot"
  /\ flashProt' = IF keyUnlocked THEN 0 ELSE flashProt
  /\ keyUnlocked' = FALSE
  /\ Log(Ev("prot"))
  /\ pc' = "unlock2"
  /\ UNCHANGED <<out, argc, file, fileData, filePos, buffer1, buffer2, flash, ptr,
                 size, got, crcexpected, crcresult, crcbackup, response, state,
                 counter, pagemax, lastpagebytes, addressto, addressfrom,
                 value, ie, flashFdiv, flashPage,
                 pgctl, faults, faulted, pass, verifyLog>>

\* mutant: the second enableFlashKeyRegister() is left out
Unlock2Skipped ==
  /\ pc = "unlock2"
  /\ pc' = "fdiv"
  /\ UNCHANGED <<out, argc, file, fileData, filePos, buffer1, buffer2, flash, ptr,
                 size, got, crcexpected, crcresult, crcbackup, response, state,
                 counter, pagemax, lastpagebytes, addressto, addressfrom,
                 value, ie, keyUnlocked, flashProt, flashFdiv, flashPage,
                 pgctl, faults, faulted, pass, trace, verifyLog>>

Unlock2 == Unlock("unlock2", "fdiv")

\* FLASH_FDIV = 0x5F, then for(counter = 0; counter < FLASHPAGES; ...)
WriteFdiv ==
  /\ pc = "fdiv"
  /\ flashFdiv' = IF keyUnlocked THEN 95 ELSE flashFdiv
  /\ keyUnlocked' = FALSE
  /\ Log(Ev("fdiv"))
  /\ counter' = 0
  /\ pc' = IF 0 < FLASHPAGES THEN "erase_issue" ELSE "pages"
  /\ UNCHANGED <<out, argc, file, fileData, filePos, buffer1, buffer2, flash, ptr,
                 size, got, crcexpected, crcresult, crcbackup, response, state,
                 pagemax, lastpagebytes, addressto, addressfrom,
                 value, ie, flashProt, flashPage,
                 pgctl, faults, faulted, pass, verifyLog>>

\* FLASH_PAGE = counter; FLASH_PGCTL = 0x02;
EraseIssue ==
  /\ pc = "erase_issue"
  /\ flashPage' = counter
  /\ pgctl' = 2
  /\ Log([Ev("erase") EXCEPT !.to = counter])
  /\ pc' = "poll_read"
  /\ UNCHANGED <<out, argc, file, fileData, filePos, buffer1, buffer2, flash, ptr,
                 size, got, crcexpected, crcresult, crcbackup, response, state,
                 counter, pagemax, lastpagebytes, addressto, addressfrom,
                 value, ie, keyUnlocked, flashProt, flashFdiv,
                 faults, faulted, pass, verifyLog>>

\* the device finishes the erase and clears the busy bit
EraseComplete ==
  /\ pgctl = 2
  /\ \E f \in BOOLEAN :
       /\ f => faults < MaxFaults
       /\ flash' = EraseFlash(flash, flashProt, flashPage, f)
       /\ faults' = IF f THEN faults + 1 ELSE faults
       /\ faulted' = (faulted \/ f)
  /\ pgctl' = 0
  /\ UNCHANGED <<pc, out, argc, file, fileData, filePos, buffer1, buffer2, ptr,
                 size, got, crcexpected, crcresult, crcbackup, response, state,
                 counter, pagemax, lastpagebytes, addressto, addressfrom,
                 value, ie, keyUnlocked, flashProt, flashFdiv, flashPage,
                 pass, trace, verifyLog>>

\* value = FLASH_PGCTL;
PollRead ==
  /\ pc = "poll_read"
  /\ value' = pgctl
  /\ pc' = "poll_test"
  /\ UNCHANGED <<out, argc, file, fileData, filePos, buffer1, buffer2, flash, ptr,
                 size, got, crcexpected, crcresult, crcbackup, response, state,
                 counter, pagemax, lastpagebytes, addressto, addressfrom,
                 ie, keyUnlocked, flashProt, flashFdiv, flashPage,
                 pgctl, faults, faulted, pass, trace, verifyLog>>

\* mutant: the poll loop tests bit 0x01, which the device never sets
BusyBit0(v) == v % 2 = 1

\* mutant: the poll loop waits while the busy bit is clear
BusyInverted(v) == (v \div 2) % 2 = 0

\* value & 0x02
Busy(v) == (v \div 2) % 2 = 1

\* while(value & 0x02); then counter++ and the loop test
PollTest ==
  /\ pc = "poll_test"
  /\ IF Busy(value)
     THEN /\ pc' = "poll_read"
          /\ UNCHANGED counter
     ELSE /\ counter' = counter + 1
          /\ pc' = IF counter + 1 < FLASHPAGES THEN "erase_issue" ELSE "pages"
  /\ UNCHANGED <<out, argc, file, fileData, filePos, buffer1, buffer2, flash, ptr,
                 size, got, crcexpected, crcresult, crcbackup, response, state,
                 pagemax, lastpagebytes, addressto, addressfrom,
                 value, ie, keyUnlocked, flashProt, flashFdiv, flashPage,
                 pgctl, faults, faulted, pass, trace, verifyLog>>

\* determine number of pages to write
ComputePages ==
  /\ pc = "pages"
  /\ pagemax' = PageMax(size, PAGESIZE)
  /\ lastpagebytes' = LastPageBytes(size, PAGESIZE)
  /\ counter' = 0
  /\ pc' = IF 0 < pagemax' THEN "write" ELSE "lock"
  /\ UNCHANGED <<out, argc, file, fileData, filePos, buffer1, buffer2, flash, ptr,
                 size, got, crcexpected, crcresult, crcbackup, response, state,
                 addressto, addressfrom,
                 value, ie, keyUnlocked, flashProt, flashFdiv, flashPage,
                 pgctl, faults, faulted, pass, trace, verifyLog>>

\* one iteration of the page write loop
WritePage ==
  /\ pc = "write"
  /\ LET n    == CopyLen(counter, pagemax, lastpagebytes, PAGESIZE)
         data == [i \in 1..n |-> BufByte(BufOf(addressfrom), addressfrom.off + i - 1)]
     IN /\ \E f \in BOOLEAN :
             /\ f => faults < MaxFaults
             /\ flash' = ProgramFlash(flash, flashProt, addressto, data, f)
             /\ faults' = IF f THEN faults + 1 ELSE faults
             /\ faulted' = (faulted \/ f)
        /\ Log([op |-> "program", to |-> addressto, from |-> addressfrom, len |-> n])
  /\ addressto' = addressto + PAGESIZE
  /\ addressfrom' = [addressfrom EXCEPT !.off = @ + PAGESIZE]
  /\ counter' = counter + 1
  /\ pc' = IF counter + 1 < pagemax THEN "write" ELSE "lock"
  /\ UNCHANGED <<out, argc, file, fileData, filePos, buffer1, buffer2, ptr,
                 size, got, crcexpected, crcresult, crcbackup, response, state,
                 pagemax, lastpagebytes,
                 value, ie, keyUnlocked, flashProt, flashFdiv, flashPage,
                 pgctl, pass, verifyLog>>

\* mutant: lockFlashKeyRegister() is left out
LockSkipped ==
  /\ pc = "lock"
  /\ pc' = "verify"
  /\ UNCHANGED <<out, argc, file, fileData, filePos, buffer1, buffer2, flash, ptr,
                 size, got, crcexpected, crcresult, crcbackup, response, state,
                 counter, pagemax, lastpagebytes, addressto, addressfrom,
                 value, ie, keyUnlocked, flashProt, flashFdiv, flashPage,
                 pgctl, faults, faulted, pass, trace, verifyLog>>

\* lockFlashKeyRegister()
Lock ==
  /\ pc = "lock"
  /\ keyUnlocked' = FALSE
  /\ Log(Ev("lock"))
  /\ pc' = "verify"
  /\ UNCHANGED <<out, argc, file, fileData, filePos, buffer1, buffer2, flash, ptr,
                 size, got, crcexpected, crcresult, crcbackup, response, state,
                 counter, pagemax, lastpagebytes, addressto, addressfrom,
                 value, ie, flashProt, flashFdiv, flashPage,
                 pgctl, faults, faulted, pass, verifyLog>>

\* the verification target: if(state == recover) crcexpected = crcbackup;
Target(st, expected, backup) == IF st = "recover" THEN backup ELSE expected

\* mutant: any mismatch halts
NextStateHaltFirst(st, match) ==
  IF match THEN "systemreset" ELSE "halt"

\* mutant: a failed recovery restarts the device
NextStateResetAfterRecover(st, match) ==
  IF match \/ st = "recover" THEN "systemreset" ELSE "recover"

\* the next value of state, or "halt" for while(1)
NextState(st, match) ==
  IF match THEN "systemreset"
  ELSE IF st = "recover" THEN "halt" ELSE "recover"

\* mutant: the assignment of the target is reversed (crcbackup = crcexpected)
VerifyOverwritesBackup ==
  /\ pc = "verify"
  /\ crcresult' = crc32(FlashRange(flash, size))
  /\ crcbackup' = Target(state, crcbackup, crcexpected)
  /\ crcexpected' = crcexpected
  /\ LET nxt == NextState(state, crcresult' = crcexpected') IN
       /\ verifyLog' = Append(verifyLog,
             [state |-> state, size |-> size, measured |-> crcresult',
              expected |-> crcexpected', faulted |-> faulted])
       /\ IF nxt = "halt"
          THEN pc' = "halt" /\ UNCHANGED state
          ELSE pc' = "switch" /\ state' = nxt
  /\ UNCHANGED <<out, argc, file, fileData, filePos, buffer1, buffer2, flash, ptr,
                 size, got, response,
                 counter, pagemax, lastpagebytes, addressto, addressfrom,
                 value, ie, keyUnlocked, flashProt, flashFdiv, flashPage,
                 pgctl, faults, faulted, pass, trace>>

\* mutant: the checksum is not recomputed after the writes
VerifyStale ==
  /\ pc = "verify"
  /\ crcresult' = crcresult
  /\ crcexpected' = Target(state, crcexpected, crcbackup)
  /\ LET nxt == NextState(state, crcresult' = crcexpected') IN
       /\ verifyLog' = Append(verifyLog,
             [state |-> state, size |-> size, measured |-> crcresult',
              expected |-> crcexpected', faulted |-> faulted])
       /\ IF nxt = "halt"
          THEN pc' = "halt" /\ UNCHANGED state
          ELSE pc' = "switch" /\ state' = nxt
  /\ UNCHANGED <<out, argc, file, fileData, filePos, buffer1, buffer2, flash, ptr,
                 size, got, crcbackup, response,
                 counter, pagemax, lastpagebytes, addressto, addressfrom,
                 value, ie, keyUnlocked, flashProt, flashFdiv, flashPage,
                 pgctl, faults, faulted, pass, trace>>

\* verify the checksum in flash and decide the next state
Verify ==
  /\ pc = "verify"
  /\ crcresult' = crc32(FlashRange(flash, size))
  /\ crcexpected' = Target(state, crcexpected, crcbackup)
  /\ LET nxt == NextState(state, crcresult' = crcexpected') IN
       /\ verifyLog' = Append(verifyLog,
             [state |-> state, size |-> size, measured |-> crcresult',
              expected |-> crcexpected', faulted |-> faulted])
       /\ IF nxt = "halt"
          THEN pc' = "halt" /\ UNCHANGED state
          ELSE pc' = "switch" /\ state' = nxt
  /\ UNCHANGED <<out, argc, file, fileData, filePos, buffer1, buffer2, flash, ptr,
                 size, got, crcbackup, response,
                 counter, pagemax, lastpagebytes, addressto, addressfrom,
                 value, ie, keyUnlocked, flashProt, flashFdiv, flashPage,
                 pgctl, faults, faulted, pass, trace>>

\* mutant: the failed recovery falls through to a device reset
HaltResets ==
  /\ pc = "halt"
  /\ pc' = "reset"
  /\ Log(Ev("reset"))
  /\ UNCHANGED <<out, argc, file, fileData, filePos, buffer1, buffer2, flash, ptr,
                 size, got, crcexpected, crcresult, crcbackup, response, state,
                 counter, pagemax, lastpagebytes, addressto, addressfrom,
                 value, ie, keyUnlocked, flashProt, flashFdiv, flashPage,
                 pgctl, faults, faulted, pass, verifyLog>>

\* while(1);
Halt ==
  /\ pc = "halt"
  /\ UNCHANGED vars

Cpu ==
  \/ CheckArgs \/ OpenFile \/ ParseCrc \/ ReadBlock \/ SizeCheck \/ Gate
  \/ GetResponse \/ BackupCopy \/ BackupCrc \/ Di \/ Switch
  \/ Unlock1 \/ WriteProt \/ Unlock2 \/ WriteFdiv
  \/ EraseIssue \/ PollRead \/ PollTest
  \/ ComputePages \/ WritePage \/ Lock \/ Verify \/ Halt

Next == Cpu \/ EraseComplete

Spec == Init /\ [][Next]_vars

\* every erase the device starts completes, and the processor keeps running
FairSpec == Spec /\ WF_vars(Cpu) /\ WF_vars(EraseComplete)

\* ==== properties ====

Terminal == {"reset", "halt"}
DeviceOps == {"unlock", "prot", "fdiv", "erase", "program", "lock"}

Matched(v) == v.measured = v.expected

IsProgram(e) == e.op = "program"

Has(op) == \E i \in 1..Len(trace) : trace[i].op = op

Count(op) == Cardinality({i \in 1..Len(trace) : trace[i].op = op})

LastOf(op) ==
  LET S == {i \in 1..Len(trace) : trace[i].op = op}
  IN IF S = {} THEN 0 ELSE CHOOSE i \in S : \A j \in S : j <= i

\* the program operations of the pass in progress
PassProgs == SelectSeq(SubSeq(trace, LastOf("fdiv") + 1, Len(trace)), IsProgram)

RECURSIVE SumLen(_)
SumLen(s) == IF s = <<>> THEN 0 ELSE s[1].len + SumLen(Tail(s))

\* the image a pass writes: the Candidate as loaded, or the Backup
SourceOf(st) == IF st = "recover" THEN buffer2 ELSE buffer1

\* C1: after the operator confirms, the run never returns to its caller; Halt
\* is entered only after a WriteCandidate mismatch followed by a WriteBackup
\* mismatch; Reset only after a match; a WriteCandidate mismatch leads to
\* WriteBackup.
C1_HaltOnlyAfterTwoMismatches ==
  /\ response = "y" => pc # "returned"
  /\ Len(verifyLog) <= 2
  /\ Len(verifyLog) >= 1 => verifyLog[1].state = "firmware"
  /\ Len(verifyLog) = 2 =>
       /\ ~Matched(verifyLog[1])
       /\ verifyLog[2].state = "recover"
  /\ (Len(verifyLog) = 1 /\ ~Matched(verifyLog[1])) =>
       /\ state = "recover"
       /\ pc \notin Terminal
  /\ pc = "halt" =>
       /\ Len(verifyLog) = 2
       /\ ~Matched(verifyLog[1]) /\ ~Matched(verifyLog[2])
  /\ pc = "reset" =>
       /\ Len(verifyLog) >= 1
       /\ Matched(verifyLog[Len(verifyLog)])

C1_Witness ==
  /\ pc = "halt"
  /\ Len(verifyLog) = 2
  /\ ~Matched(verifyLog[2])

\* C2: the device is restarted only when the checksum of the flash region just
\* written, recomputed after the pass, equals the expected checksum of the
\* image of that pass (the Candidate's after WriteCandidate, the captured
\* backup checksum after WriteBackup).
C2_ResetOnlyAfterFreshMatch ==
  (pc = "reset" \/ state = "systemreset") =>
     /\ Len(verifyLog) >= 1
     /\ LET v == verifyLog[Len(verifyLog)] IN
          /\ v.measured = crc32(FlashRange(flash, v.size))
          /\ v.measured = v.expected
          /\ v.state = "firmware" =>
               v.expected = crc32(SubSeq(buffer1, 1, v.size))
          /\ v.state = "recover" =>
               /\ v.expected = crcbackup
               /\ v.size = FLASHSIZE

C2_Witness ==
  /\ pc = "reset"
  /\ Len(verifyLog) = 2
  /\ verifyLog[2].state = "recover"

\* C3: a pass in which no erase or program fault occurs leaves in
\* flash[0:length] the bytes [0:length] of its source image, so its
\* verification matches and the next state is Reset (in WriteBackup too).
C3_FaultFreePassVerifies ==
  \A i \in 1..Len(verifyLog) :
     LET v == verifyLog[i] IN
       ~v.faulted =>
          /\ v.measured = crc32(SubSeq(SourceOf(v.state), 1, v.size))
          /\ Matched(v)
          /\ i = Len(verifyLog)
          /\ pc \in {"switch", "reset"} /\ state = "systemreset"

\* C4: a write pass issues ceil(length / pageSize) program operations, all of
\* pageSize bytes except the last, which copies length mod pageSize bytes if
\* that is nonzero; the copy lengths add up to length.
C4_PageCountAndLengths ==
  pc = "lock" =>
     LET n == Len(PassProgs) IN
       /\ size >= 0 /\ size <= FLASHSIZE
       /\ n = CeilDiv(size, PAGESIZE)
       /\ \A k \in 1..n :
            PassProgs[k].len =
              IF k < n \/ size % PAGESIZE = 0 THEN PAGESIZE ELSE size % PAGESIZE
       /\ SumLen(PassProgs) = size

C4_Witness ==
  /\ pc = "lock"
  /\ size % PAGESIZE # 0
  /\ Len(PassProgs) >= 2
  /\ PassProgs[Len(PassProgs)].len < PAGESIZE

\* C5: a run that returns to its caller has printed one of the six pre-flight
\* failure messages, has issued no flash operation and has left interrupts
\* enabled; an image is rejected as too large only if longer than the flash.
C5_PreflightFailureTouchesNothing ==
  pc = "returned" =>
     /\ out \in {"usage", "error_opening", "incorrect_format", "too_large",
                 "mismatch", "user_abort"}
     /\ trace = <<>>
     /\ ie
     /\ flashProt = 255 /\ ~keyUnlocked /\ pgctl = 0
     /\ out = "usage" <=> argc # 3
     /\ out = "too_large" <=> Len(buffer1) > FLASHSIZE
     /\ out = "mismatch" => crcexpected # crc32(SubSeq(buffer1, 1, size))
     /\ out = "user_abort" => response = "n"

C5_Witness ==
  /\ pc = "returned"
  /\ out = "mismatch"
  /\ size = FLASHSIZE

\* C6: when interrupts are disabled, and before any flash operation is issued,
\* BUFFER2 holds a copy of the whole flash and crcbackup is its checksum.
C6_BackupBeforeDestructiveStep ==
  /\ \A i \in 1..Len(trace) :
       trace[i].op \in DeviceOps \cup {"di"} =>
         /\ \E j \in 1..(i - 1) : trace[j].op = "backup_copy"
         /\ \E j \in 1..(i - 1) : trace[j].op = "backup_crc"
  /\ (~ie \/ pc = "di") =>
       /\ Len(buffer2) = FLASHSIZE
       /\ crcbackup = crc32(buffer2)
  /\ (pc = "di" \/ (pc = "switch" /\ pass = 0)) =>
       buffer2 = FlashRange(flash, FLASHSIZE)

C6_Witness ==
  /\ Has("erase")
  /\ Has("backup_crc")
  /\ ~ie

\* C7: once in Halt the routine stays in Halt and issues nothing more: no
\* return, no reset, no unlock, erase or program operation.
C7_HaltIsForever ==
  [][pc = "halt" =>
       /\ pc' = "halt"
       /\ trace' = trace
       /\ flash' = flash
       /\ ~Has("reset")]_vars

C7_Witness ==
  /\ pc = "halt"
  /\ ~Matched(verifyLog[1])
  /\ ~Has("reset")

\* C8: when the WriteCandidate verification matches, the session ends in Reset
\* after one pass with ceil(length / pageSize) program operations, and
\* WriteBackup is never entered.
C8_SuccessPath ==
  /\ PageMax(50000, 1024) = 49
  /\ (Len(verifyLog) >= 1 /\ Matched(verifyLog[1])) =>
       /\ pass = 1
       /\ Len(verifyLog) = 1
       /\ state = "systemreset"
       /\ pc \in {"switch", "reset"}
       /\ size = Len(buffer1)
       /\ Count("program") = CeilDiv(Len(buffer1), PAGESIZE)
       /\ Count("erase") = FLASHPAGES
       /\ Count("lock") = 1

C8_Witness ==
  /\ pc = "reset"
  /\ pass = 1
  /\ size > PAGESIZE /\ size % PAGESIZE # 0
  /\ Count("program") = CeilDiv(size, PAGESIZE)

\* C9: once captured, crcbackup and the bytes of BUFFER2 never change, and
\* the WriteBackup verification compares against that captured value.
C9_BackupImmutable ==
  [][Has("backup_crc") =>
       /\ crcbackup' = crcbackup
       /\ buffer2' = buffer2
       /\ (pc = "verify" /\ state = "recover") => crcexpected' = crcbackup]_vars

C9_Witness ==
  /\ Len(verifyLog) = 2
  /\ verifyLog[2].expected = crcbackup
  /\ crcbackup = crc32(buffer2)

\* C10: if every erase completes, a confirmed session reaches Reset or Halt,
\* and never starts more than two passes.
C10_Terminates ==
  /\ (response = "y") ~> (pc \in Terminal)
  /\ [](pass <= 2)

C10_Witness ==
  /\ pc \in Terminal
  /\ pass = 2
  /\ Count("erase") = 2 * FLASHPAGES

\* the operations of the pass in progress that follow its FLASH_FDIV write
PassOps == SubSeq(trace, LastOf("fdiv") + 1, Len(trace))

IsErase(e) == e.op = "erase"

\* the page erases of the pass in progress
PassErases == SelectSeq(PassOps, IsErase)

\* C11: in every pass the k-th program operation copies from source offset
\* k*PAGESIZE to FLASHSTART + k*PAGESIZE, and every programmed range lies
\* inside [FLASHSTART, FLASHSTART + FLASHSIZE).
C11_PassWritesFromFlashStart ==
  \A k \in 1..Len(PassProgs) :
     /\ PassProgs[k].from.off = (k - 1) * PAGESIZE
     /\ PassProgs[k].to = FLASHSTART + (k - 1) * PAGESIZE
     /\ PassProgs[k].to >= FLASHSTART
     /\ PassProgs[k].to + PassProgs[k].len <= FLASHSTART + FLASHSIZE

\* C12: in every pass the pages 0..FLASHPAGES-1 are erased in increasing
\* order, an erase is issued only when no erase is in progress, and no program
\* operation is issued before the last erase of the pass has completed.
C12_EraseAllThenProgram ==
  /\ \A k \in 1..Len(PassErases) : PassErases[k].to = k - 1
  /\ Len(PassErases) <= FLASHPAGES
  /\ pc = "erase_issue" =>
       /\ pgctl = 0
       /\ Len(PassErases) = counter
  /\ pc \in {"poll_read", "poll_test"} => Len(PassErases) = counter + 1
  /\ pc \in {"pages", "write", "lock", "verify"} =>
       /\ pgctl = 0
       /\ Len(PassErases) = FLASHPAGES
  /\ \A i \in 1..Len(PassOps) :
       PassOps[i].op = "program" =>
         /\ Cardinality({j \in 1..(i - 1) : PassOps[j].op = "erase"}) = FLASHPAGES
         /\ \A j \in (i + 1)..Len(PassOps) : PassOps[j].op # "erase"
         /\ PassOps[i].to + PassOps[i].len <= FLASHSTART + FLASHSIZE =>
              \E j \in 1..(i - 1) :
                 /\ PassOps[j].op = "erase"
                 /\ PassOps[j].to = (PassOps[i].to - FLASHSTART) \div PAGESIZE

C12_Witness ==
  /\ pc = "write"
  /\ pass = 2
  /\ Len(PassErases) = FLASHPAGES
  /\ Len(PassProgs) >= 1

\* the key-protected registers: FLASH_PROT and FLASH_FDIV
KeyProtected == {"prot", "fdiv"}

\* the protection register was written in the pass that operation i belongs to
ProtWrittenBefore(i) ==
  \E j \in 1..(i - 1) :
     /\ trace[j].op = "prot"
     /\ \A k \in (j + 1)..(i - 1) : trace[k].op # "lock"

\* C13 as stated: every key-protected write and every erase-enable write
\* (FLASH_PGCTL = 0x02, the "erase" operations) directly follows an unlock,
\* protection is disabled before the first erase of the pass, and the erase
\* loop issues no unlock.
C13_UnlockBeforeEraseEnable ==
  /\ \A i \in 1..Len(trace) :
       trace[i].op \in KeyProtected \cup {"erase"} =>
         /\ i > 1
         /\ trace[i - 1].op = "unlock"
  /\ \A i \in 1..Len(trace) : trace[i].op = "erase" => ProtWrittenBefore(i)
  /\ \A i \in 1..Len(trace) :
       trace[i].op = "unlock" => (i > 1 /\ trace[i - 1].op \in {"di", "lock", "prot"})

\* C13 (amended): FLASH_PROT and FLASH_FDIV are each written directly after an
\* unlock of their own and while the key register is unlocked; FLASH_PROT is
\* cleared before the first erase of the pass; the erase loop issues no
\* unlock, each erase-enable write following the FLASH_FDIV write or the
\* previous erase.
C13_UnlockProtocol ==
  /\ \A i \in 1..Len(trace) :
       trace[i].op \in KeyProtected =>
         /\ i > 1
         /\ trace[i - 1].op = "unlock"
  /\ pc \in {"prot", "fdiv"} => keyUnlocked
  /\ Has("fdiv") => flashFdiv = 95
  /\ \A i \in 1..Len(trace) :
       trace[i].op = "erase" =>
         /\ ProtWrittenBefore(i)
         /\ trace[i - 1].op \in {"fdiv", "erase"}
  /\ Has("erase") => flashProt = 0
  /\ \A i \in 1..Len(trace) :
       trace[i].op = "unlock" => (i > 1 /\ trace[i - 1].op \in {"di", "lock", "prot"})
  /\ Count("unlock") <= 2 * pass

C13_Witness ==
  /\ pass = 2
  /\ Count("erase") = 2 * FLASHPAGES
  /\ Count("unlock") = 4
  /\ Count("prot") = 2

\* C14: in every pass the key register is locked after the last program
\* operation and before the verification; it is locked in every verification
\* step and in Reset and Halt.
C14_RelockBeforeVerify ==
  /\ \A i \in 1..Len(trace) :
       trace[i].op = "lock" => (i > 1 /\ trace[i - 1].op \in {"program", "erase"})
  /\ pc = "verify" =>
       /\ trace[Len(trace)].op = "lock"
       /\ Count("lock") = Len(verifyLog) + 1
       /\ Count("lock") = pass
       /\ ~keyUnlocked
  /\ pc # "verify" => Count("lock") = Len(verifyLog)
  /\ pc \in Terminal =>
       /\ ~keyUnlocked
       /\ LastOf("lock") > LastOf("unlock")
       /\ LastOf("lock") > LastOf("program")
       /\ LastOf("lock") > LastOf("erase")

C14_Witness ==
  /\ pc = "verify"
  /\ pass = 2
  /\ trace[Len(trace)].op = "lock"
  /\ trace[Len(trace) - 1].op = "program"

\* C15: every verification measures the flash as it is after the pass's
\* writes, over the pass's length, and compares it with the Candidate's
\* checksum in WriteCandidate and with the captured backup checksum in
\* WriteBackup.
C15_FreshChecksumRightTarget ==
  /\ \A i \in 1..Len(verifyLog) :
       LET v == verifyLog[i] IN
         /\ v.state = (IF i = 1 THEN "firmware" ELSE "recover")
         /\ v.state = "firmware" =>
              /\ v.size = Len(buffer1)
              /\ v.expected = crc32(buffer1)
         /\ v.state = "recover" =>
              /\ v.size = FLASHSIZE
              /\ v.expected = crcbackup
              /\ v.expected = crc32(buffer2)
  /\ (Len(verifyLog) >= 1 /\ pc \in {"switch", "reset", "halt"}) =>
       LET v == verifyLog[Len(verifyLog)] IN
         /\ v.measured = crc32(FlashRange(flash, v.size))
         /\ crcresult = v.measured
         /\ crcexpected = v.expected

C15_Witness ==
  /\ pc = "switch"
  /\ Len(verifyLog) = 1
  /\ verifyLog[1].faulted
  /\ verifyLog[1].measured # verifyLog[1].expected
  /\ verifyLog[1].measured = crc32(FlashRange(flash, size))

\* C16: the WriteBackup pass writes and verifies the full capacity whatever
\* the Candidate's length: FLASHSIZE / PAGESIZE program operations of PAGESIZE
\* bytes each, read from consecutive pages of BUFFER2, and a checksum over
\* FLASHSIZE bytes.
C16_BackupPassFullLength ==
  /\ (pass = 2 /\ pc # "switch") => size = FLASHSIZE
  /\ (pass = 2 /\ pc \in {"lock", "verify", "switch", "reset", "halt"}) =>
       /\ Len(PassProgs) = FLASHSIZE \div PAGESIZE
       /\ \A k \in 1..Len(PassProgs) :
            /\ PassProgs[k].len = PAGESIZE
            /\ PassProgs[k].from = [base |-> BUFFER2, off |-> (k - 1) * PAGESIZE]
  /\ Len(verifyLog) = 2 =>
       /\ verifyLog[2].size = FLASHSIZE
       /\ verifyLog[2].measured = crc32(FlashRange(flash, FLASHSIZE))

C16_Witness ==
  /\ Len(verifyLog) = 2
  /\ Len(buffer1) < PAGESIZE
  /\ verifyLog[1].size < verifyLog[2].size
  /\ Len(PassProgs) = FLASHPAGES

\* C17: the loader never stores more bytes into BUFFER1 than the buffer holds
\* (FLASHSIZE): it stops at the end of the file or at capacity.
C17_LoaderStaysInBuffer ==
  /\ Len(buffer1) <= FLASHSIZE
  /\ ptr <= FLASHSIZE
  /\ size <= FLASHSIZE

\* C18: at the prompt the byte y, and only it, leads on to the backup and the
\* flash; n returns with no flash access; any other byte, Y and N included,
\* leaves the program reading the next byte.
C18_OnlyLowercaseYProceeds ==
  [][/\ pc = "prompt" =>
          /\ response' = "y" <=> pc' = "backup_copy"
          /\ response' = "n" <=> pc' = "returned"
          /\ response' \notin {"y", "n"} <=> pc' = "prompt"
          /\ trace' = <<>> /\ ie'
     /\ trace' # <<>> => response' = "y"
     /\ out' = "user_abort" => (response' = "n" /\ trace' = <<>>)]_vars

C18_Witness ==
  /\ pc = "prompt"
  /\ response = "Y"
  /\ trace = <<>>

\* the positions of main() after di()
AfterDi == {"switch", "unlock1", "prot", "unlock2", "fdiv", "erase_issue",
            "poll_read", "poll_test", "pages", "write", "lock", "verify",
            "reset", "halt"}

\* C19: once di() has run, interrupts stay disabled: in every step of both
\* passes, during the erase polls, and in Reset and Halt.
C19_InterruptsStayDisabled ==
  /\ [](Has("di") => ~ie)
  /\ [](pc \in AfterDi => (~ie /\ Has("di")))
  /\ [](\A i \in 1..Len(trace) :
          trace[i].op \in DeviceOps \cup {"reset"} =>
            \E j \in 1..(i - 1) : trace[j].op = "di")
  /\ [][~ie => ~ie']_vars

C19_Witness ==
  /\ pc = "poll_test"
  /\ pass = 2
  /\ ~ie
  /\ pgctl = 2

\* C20: an empty Candidate passes the size check; with the checksum of the
\* empty sequence and the operator's y, the one pass erases every page,
\* programs nothing, verifies over zero bytes (a match) and ends in Reset; the
\* flash is then erased throughout (when the erases took effect) and the
\* backup has never been written back.
C20_EmptyCandidate ==
  /\ (pc = "returned" /\ file = 1 /\ fileData = <<>>) => out # "too_large"
  /\ (response = "y" /\ Len(buffer1) = 0) =>
       /\ crcexpected = crc32(<<>>)
       /\ pass <= 1
       /\ state # "recover"
       /\ pc # "halt"
       /\ Count("program") = 0
       /\ Count("erase") <= FLASHPAGES
       /\ pc \in {"lock", "verify"} => Count("erase") = FLASHPAGES
  /\ (pc = "reset" /\ Len(buffer1) = 0) =>
       /\ pass = 1
       /\ Count("erase") = FLASHPAGES
       /\ \A k \in 1..FLASHPAGES : PassErases[k].to = k - 1
       /\ Len(verifyLog) = 1
       /\ verifyLog[1].size = 0
       /\ Matched(verifyLog[1])
       /\ ~verifyLog[1].faulted => \A a \in 0..(FLASHSIZE - 1) : flash[a] = Erased

C20_Witness ==
  /\ pc = "reset"
  /\ Len(buffer1) = 0
  /\ Count("program") = 0
  /\ \A a \in 0..(FLASHSIZE - 1) : flash[a] = Erased
  /\ \E k \in 1..Len(buffer2) : buffer2[k] # Erased

====
